---- MODULE Spec2Model ----
(***************************************************************************)
(* OpenAIWrapper.query (src/services/openai_wrapper.py): one request to    *)
(* the Responses API, normalisation of the response into a text answer,    *)
(* and the cost of the call.                                               *)
(*                                                                         *)
(* Money is an integer number of ticks of 50 nano-USD, the largest unit in *)
(* which every per-token rate of the pricing table is whole; a micro-USD   *)
(* (the 6th decimal place) is 20 ticks.  The code computes in binary       *)
(* floating point: round(cost, 6) yields the nearest multiple of 1e-6, and *)
(* when the exact cost lies half-way between two of them the float error   *)
(* of the sum decides which one, so Round6 gives both neighbours there.    *)
(* Text is a sequence of one-character strings.                            *)
(***************************************************************************)
EXTENDS Integers, Sequences, FiniteSets, TLC

VARIABLES
    pc,      \* "idle" | "awaiting" (inside responses.create) | "returned" | "propagated"
    model,   \* the model argument of the current invocation
    reply,   \* what responses.create did in the current invocation
    exc,     \* the exception the try block raised, "none" if it raised none
    frame,   \* the locals in_tok .. web_calls when the success return is reached
    result,  \* the dict query returned
    calls    \* calls of responses.create made by the current invocation

vars == <<pc, model, reply, exc, frame, result, calls>>

----------------------------------------------------------------------------
(* Bounds of the explored inputs *)

MaxTok == 2     \* small token counts 0..MaxTok, beside 500000 and 1000000
MaxItems == 2   \* longest output sequence
MaxParts == 2   \* longest content sequence of an assistant item

----------------------------------------------------------------------------
(* Pricing table, in nano-USD per token (= the USD per 1M tokens x 1000) *)

PRICING ==
    ("gpt-5" :> [input |-> 1250, output |-> 10000]) @@
    ("gpt-5-mini" :> [input |-> 250, output |-> 2000]) @@
    ("gpt-5-nano" :> [input |-> 50, output |-> 400])

\* 0.01 USD per web search call, in nano-USD
WEB_SEARCH_COST_PER_CALL == 10000000

\* nano-USD in one tick
NanoPerTick == 50

\* ticks in 0.000001 USD
TicksPerMicro == 20

UnsupportedModels == {"gpt-4o", ""}

Models == DOMAIN PRICING \cup UnsupportedModels

----------------------------------------------------------------------------
(* Values of the loosely typed response object *)

Absent == [tag |-> "absent", v |-> 0]    \* the attribute does not exist
NoneVal == [tag |-> "None", v |-> 0]     \* the attribute is None
IntVal(n) == [tag |-> "int", v |-> n]

TokInts == (0..MaxTok) \cup {500000, 1000000}

TokVals == {Absent, NoneVal} \cup {IntVal(n) : n \in TokInts}

NoDetails(t) == [tag |-> t, reasoning_tokens |-> Absent]

Details == {NoDetails("absent"), NoDetails("None")}
           \cup {[tag |-> "obj", reasoning_tokens |-> v] : v \in TokVals}

NoUsage(t) ==
    [tag |-> t, input_tokens |-> Absent, output_tokens |-> Absent,
     output_tokens_details |-> NoDetails("absent")]

Usages ==
    {NoUsage("absent"), NoUsage("None")}
    \cup {[tag |-> "obj", input_tokens |-> i, output_tokens |-> o,
           output_tokens_details |-> d] : i \in TokVals, o \in TokVals, d \in Details}

SeqsUpTo(S, n) == UNION {[1..k -> S] : k \in 0..n}

Whitespace == {" "}

TextPart(t) == [hasText |-> TRUE, text |-> t]
NoTextPart == [hasText |-> FALSE, text |-> <<>>]

Parts == {NoTextPart, TextPart(<<"a", " ">>), TextPart(<<" ">>)}

NoContent == [tag |-> "absent", parts |-> <<>>]
Content(ps) == [tag |-> "list", parts |-> ps]

Assistant(c) == [role |-> "assistant", type |-> "message", content |-> c]
WebSearchCall == [role |-> "", type |-> "web_search_call", content |-> NoContent]
UserMessage ==
    [role |-> "user", type |-> "message", content |-> Content(<<TextPart(<<"b">>)>>)]

TextItems ==
    {Assistant(Content(ps)) : ps \in SeqsUpTo(Parts, MaxParts)}
    \cup {Assistant(NoContent), WebSearchCall, UserMessage}

PlainItems == {Assistant(Content(<<TextPart(<<"a", " ">>)>>)), WebSearchCall}

Output(t, items) == [tag |-> t, items |-> items]

Response(o, u) == [tag |-> "obj", output |-> o, usage |-> u]

\* Python's None, as returned by the collaborator and as raw_response
NoneResponse ==
    [tag |-> "None", output |-> Output("absent", <<>>), usage |-> NoUsage("absent")]

ExampleUsage ==
    [tag |-> "obj", input_tokens |-> IntVal(1000000), output_tokens |-> IntVal(500000),
     output_tokens_details |-> [tag |-> "obj", reasoning_tokens |-> IntVal(500000)]]

\* output fields of every shape: no attribute, None, a non-list iterable, a list
PlainOutputs ==
    {Output("absent", <<>>), Output("None", <<>>)}
    \cup {Output(t, s) : t \in {"iter", "list"}, s \in SeqsUpTo(PlainItems, MaxItems)}

CollaboratorErrors == {"APIConnectionError", "APITimeoutError"}

ExceptionTypes ==
    {"ValueError", "AttributeError", "TypeError", "KeyError"} \cup CollaboratorErrors

----------------------------------------------------------------------------
(* The steps of the try block *)

Fallback == [text_response |-> <<>>, raw_response |-> NoneResponse, cost |-> 0]

NoFrame ==
    [in_tok |-> 0, out_tok |-> 0, reasoning_tok |-> 0, billable_out_tok |-> 0,
     web_calls |-> 0]

Pending == [kind |-> "pending", exc |-> "none", value |-> NoneResponse]
Raised(e) == [kind |-> "raise", exc |-> e, value |-> NoneResponse]
Returned(r) == [kind |-> "return", exc |-> "none", value |-> r]

SupportedAny(m) == TRUE

\* model in self._PRICING
Supported(m) == m \in DOMAIN PRICING

CaughtValueErrorOnly(e) == e = "ValueError"

\* except Exception
Caught(e) == e \in ExceptionTypes

ReadOutputDefaulted(r) == [exc |-> "none", items |-> r.output.items]

\* iter(r.output) at line 51: AttributeError when r is None or has no output
\* attribute, TypeError when the output is not iterable
ReadOutput(r) ==
    IF r.tag # "obj" \/ r.output.tag = "absent"
    THEN [exc |-> "AttributeError", items |-> <<>>]
    ELSE IF r.output.tag \notin {"iter", "list"}
    THEN [exc |-> "TypeError", items |-> <<>>]
    ELSE [exc |-> "none", items |-> r.output.items]

RECURSIVE LastAssistantFrom(_, _)
LastAssistantFrom(items, i) ==
    IF i > Len(items) THEN 0
    ELSE LET later == LastAssistantFrom(items, i + 1)
         IN  IF later # 0 THEN later
             ELSE IF items[i].role = "assistant" THEN i ELSE 0

\* next((m for m in r.output if getattr(m, "role", "") == "assistant"), None),
\* scanning from position i; 0 stands for None
RECURSIVE FirstAssistantFrom(_, _)
FirstAssistantFrom(items, i) ==
    IF i > Len(items) THEN 0
    ELSE IF items[i].role = "assistant" THEN i
    ELSE FirstAssistantFrom(items, i + 1)

\* getattr(msg, "content", [])
ContentOf(msg) == IF msg.content.tag = "absent" THEN <<>> ELSE msg.content.parts

\* "".join(p.text for p in parts if hasattr(p, "text"))
RECURSIVE JoinText(_)
JoinText(parts) ==
    IF parts = <<>> THEN <<>>
    ELSE (IF Head(parts).hasText THEN Head(parts).text ELSE <<>>)
         \o JoinText(Tail(parts))

RECURSIVE LStrip(_)
LStrip(s) ==
    IF s # <<>> /\ Head(s) \in Whitespace THEN LStrip(Tail(s)) ELSE s

RECURSIVE RStrip(_)
RStrip(s) ==
    IF s # <<>> /\ s[Len(s)] \in Whitespace
    THEN RStrip(SubSeq(s, 1, Len(s) - 1))
    ELSE s

\* str.strip()
Strip(s) == RStrip(LStrip(s))

\* the assistant text of lines 51-56
ExtractText(items) ==
    LET i == FirstAssistantFrom(items, 1)
    IN  IF i = 0 THEN <<>> ELSE Strip(JoinText(ContentOf(items[i])))

\* getattr(usage, f, 0) for usage = getattr(r, "usage", None)
UsageAttr(u, f) ==
    IF u.tag # "obj" \/ u[f].tag = "absent" THEN IntVal(0) ELSE u[f]

\* getattr(getattr(usage, "output_tokens_details", None), "reasoning_tokens", 0)
ReasoningAttr(u) ==
    IF u.tag # "obj" THEN IntVal(0)
    ELSE LET d == u.output_tokens_details
         IN  IF d.tag # "obj" \/ d.reasoning_tokens.tag = "absent"
             THEN IntVal(0) ELSE d.reasoning_tokens

OrZeroOmitted(x) == x

\* x or 0
OrZero(x) == IF x.tag = "None" \/ x.v = 0 THEN IntVal(0) ELSE x

Max(a, b) == IF a >= b THEN a ELSE b

BillableSum(out_tok, reasoning_tok) == out_tok + reasoning_tok

\* out_tok + max(0, reasoning_tok - out_tok)
Billable(out_tok, reasoning_tok) == out_tok + Max(0, reasoning_tok - out_tok)

\* (in_tok / 1e6) * price["input"] + (billable_out_tok / 1e6) * price["output"], in ticks
TokenCost(m, in_tok, billable_out_tok) ==
    in_tok * (PRICING[m].input \div NanoPerTick)
    + billable_out_tok * (PRICING[m].output \div NanoPerTick)

RECURSIVE CountLeadingWebCalls(_)
CountLeadingWebCalls(items) ==
    IF items = <<>> \/ Head(items).type # "web_search_call" THEN 0
    ELSE 1 + CountLeadingWebCalls(Tail(items))

\* the loop of lines 72-74
RECURSIVE CountWebCalls(_)
CountWebCalls(items) ==
    IF items = <<>> THEN 0
    ELSE (IF Head(items).type = "web_search_call" THEN 1 ELSE 0)
         + CountWebCalls(Tail(items))

\* hasattr(r, "output") and isinstance(r.output, list)
HasOutputList(r) == r.tag = "obj" /\ r.output.tag = "list"

WebCalls(r) == IF HasOutputList(r) THEN CountWebCalls(r.output.items) ELSE 0

Round6Omitted(t) == {t}

\* round(cost, 6): the nearest multiples of 0.000001 USD, both at a tie
Round6(t) ==
    LET q == t \div TicksPerMicro
        rem == t % TicksPerMicro
    IN  {TicksPerMicro * k :
            k \in {j \in {q, q + 1} :
                     \/ j = q /\ 2 * rem <= TicksPerMicro
                     \/ j = q + 1 /\ 2 * rem >= TicksPerMicro}}

Raise(e) == [exc |-> e, frame |-> NoFrame, result |-> Fallback]

\* lines 50-82 for the response r: the possible ways the try block ends
Normalize(m, r) ==
    IF ReadOutput(r).exc # "none" THEN {Raise(ReadOutput(r).exc)}
    ELSE
    LET text_response == ExtractText(ReadOutput(r).items)
        in_tok == OrZero(UsageAttr(r.usage, "input_tokens"))
        out_tok == OrZero(UsageAttr(r.usage, "output_tokens"))
        reasoning_tok == OrZero(ReasoningAttr(r.usage))
    IN  IF out_tok.tag # "int" \/ reasoning_tok.tag # "int" THEN {Raise("TypeError")}
        ELSE IF m \notin DOMAIN PRICING THEN {Raise("KeyError")}
        ELSE IF in_tok.tag # "int" THEN {Raise("TypeError")}
        ELSE
        LET billable_out_tok == Billable(out_tok.v, reasoning_tok.v)
            web_calls == WebCalls(r)
            cost == TokenCost(m, in_tok.v, billable_out_tok)
                    + web_calls * (WEB_SEARCH_COST_PER_CALL \div NanoPerTick)
        IN  {[exc |-> "none",
              frame |-> [in_tok |-> in_tok.v, out_tok |-> out_tok.v,
                         reasoning_tok |-> reasoning_tok.v,
                         billable_out_tok |-> billable_out_tok,
                         web_calls |-> web_calls],
              result |-> [text_response |-> text_response, raw_response |-> r,
                          cost |-> c]] : c \in Round6(cost)}

\* the try block ends as o: the success return, or the except clause
End(o) ==
    /\ pc' = IF o.exc = "none" \/ Caught(o.exc) THEN "returned" ELSE "propagated"
    /\ exc' = o.exc
    /\ frame' = o.frame
    /\ result' = o.result

----------------------------------------------------------------------------
(* Actions *)

Init ==
    /\ pc = "idle"
    /\ model = ""
    /\ reply = Pending
    /\ exc = "none"
    /\ frame = NoFrame
    /\ result = Fallback
    /\ calls = 0

\* query(prompt, model, ...) up to the call of responses.create
Query ==
    /\ pc = "idle"
    /\ \E m \in Models :
        /\ model' = m
        /\ reply' = Pending
        /\ IF Supported(m)
           THEN /\ pc' = "awaiting"
                /\ calls' = calls + 1
                /\ UNCHANGED <<exc, frame, result>>
           ELSE /\ End(Raise("ValueError"))
                /\ UNCHANGED calls

CreateRaisesAndRetries ==
    /\ pc = "awaiting"
    /\ calls < 3
    /\ calls' = calls + 1
    /\ UNCHANGED <<pc, model, reply, exc, frame, result>>

\* responses.create raises (transport error, timeout): the except clause runs
CreateRaises ==
    /\ pc = "awaiting"
    /\ \E e \in CollaboratorErrors :
        /\ reply' = Raised(e)
        /\ End(Raise(e))
    /\ UNCHANGED <<model, calls>>

\* the rest of the try block runs on the response r
Continue(r) ==
    /\ reply' = Returned(r)
    /\ \E o \in Normalize(model, r) : End(o)

\* responses.create returns: None, a response whose output items and their text
\* vary, or a response whose output shape and usage summary vary
CreateReturns ==
    /\ pc = "awaiting"
    /\ \/ Continue(NoneResponse)
       \/ \E k \in 0..MaxItems : \E s \in [1..k -> TextItems] :
            Continue(Response(Output("list", s), ExampleUsage))
       \/ \E o \in PlainOutputs, u \in Usages : Continue(Response(o, u))
    /\ UNCHANGED <<model, calls>>

\* the caller has the result; the next invocation shares nothing with this one
NextCall ==
    /\ pc = "returned"
    /\ pc' = "idle"
    /\ model' = ""
    /\ reply' = Pending
    /\ exc' = "none"
    /\ frame' = NoFrame
    /\ result' = Fallback
    /\ calls' = 0

Next ==
    \/ Query
    \/ CreateRaises
    \/ CreateReturns
    \/ NextCall

Spec == Init /\ [][Next]_vars

----------------------------------------------------------------------------
(* Properties *)

PricedModels == {"gpt-5", "gpt-5-mini", "gpt-5-nano"}

Done == pc = "returned"

\* the collaborator returned an object (not None, not an exception)
GotObject == reply.kind = "return" /\ reply.value.tag = "obj"

Abs(x) == IF x >= 0 THEN x ELSE -x

\* c is x rounded to 6 decimal places: a whole number of micro-USD nearest to x
IsRounded6(c, x) == c % TicksPerMicro = 0 /\ 2 * Abs(c - x) <= TicksPerMicro

\* the number of items of the sequence whose type tag is "web_search_call"
ToolCallCount(items) ==
    Cardinality({i \in DOMAIN items : items[i].type = "web_search_call"})

\* the exact cost of C5, in ticks, for tool-call count n
ExactCost(m, in, billable, n) ==
    in * (PRICING[m].input \div NanoPerTick)
    + billable * (PRICING[m].output \div NanoPerTick)
    + n * (WEB_SEARCH_COST_PER_CALL \div NanoPerTick)

\* C1: a model that is not a key of the pricing table gives the fallback record
\* with no call of the collaborator, and no call is ever in flight for such a model
C1_UnsupportedModel ==
    /\ pc = "awaiting" => model \in PricedModels
    /\ pc # "idle" /\ model \notin PricedModels =>
         /\ Done
         /\ result = Fallback
         /\ calls = 0
         /\ reply.kind = "pending"

C1_Witness == Done /\ model = "gpt-4o" /\ exc = "ValueError"

\* C2: query never lets an exception reach its caller, and whenever a step of the
\* try block raised, the record returned is exactly the fallback
C2_NeverRaises ==
    /\ pc # "propagated"
    /\ Done /\ exc # "none" => result = Fallback

C2_Witness ==
    /\ Done
    /\ reply.kind = "raise"
    /\ exc = "APITimeoutError"
    /\ result = Fallback

\* C3: an invocation with a priced model makes exactly one call of the
\* collaborator, however the call and the normalisation end, and no invocation
\* makes more than one
C3_ExactlyOneCall ==
    /\ calls <= 1
    /\ pc # "idle" /\ model \in PricedModels => calls = 1

C3_Witness == Done /\ reply.kind = "raise" /\ model \in PricedModels /\ calls = 1

\* C4: the billable output tokens are output_tokens when reasoning_tokens <=
\* output_tokens and reasoning_tokens otherwise
C4_BillableIsMax ==
    Done /\ exc = "none" =>
        frame.billable_out_tok =
            IF frame.reasoning_tok <= frame.out_tok
            THEN frame.out_tok ELSE frame.reasoning_tok

C4_Witness ==
    /\ Done /\ exc = "none"
    /\ frame.out_tok > 0
    /\ frame.reasoning_tok > frame.out_tok
    /\ frame.billable_out_tok = frame.reasoning_tok

\* the tool-call count of the response: the count over its output list, and zero
\* when the output field is not a list
ToolCallsOf(r) == IF r.output.tag = "list" THEN ToolCallCount(r.output.items) ELSE 0

\* C5: on success the cost is (input_tokens / 1e6) x input rate + (billable output
\* tokens / 1e6) x output rate + 0.01 x (number of web_search_call items, wherever
\* they are in the output), rounded to 6 decimal places; gpt-5-mini with 1,000,000
\* input, 500,000 output, 500,000 reasoning tokens and 2 web searches costs 1.270000
C5_CostFormula ==
    Done /\ exc = "none" =>
        LET n == ToolCallsOf(reply.value)
            billable == Max(frame.out_tok, frame.reasoning_tok)
        IN  /\ model \in PricedModels
            /\ IsRounded6(result.cost, ExactCost(model, frame.in_tok, billable, n))
            /\ ( /\ model = "gpt-5-mini"
                 /\ frame.in_tok = 1000000
                 /\ frame.out_tok = 500000
                 /\ frame.reasoning_tok = 500000
                 /\ n = 2 ) => result.cost = 1270000 * TicksPerMicro

C5_Witness ==
    /\ Done /\ exc = "none"
    /\ model = "gpt-5-mini"
    /\ frame.in_tok = 1000000
    /\ frame.out_tok = 500000
    /\ frame.reasoning_tok = 500000
    /\ reply.value.output = Output("list", <<UserMessage, WebSearchCall>>)
    /\ result.cost = 1260000 * TicksPerMicro

\* C6: the cost of every returned record, success or fallback, is non-negative
\* and a whole multiple of 0.000001
C6_CostRounded ==
    Done => result.cost >= 0 /\ result.cost % TicksPerMicro = 0

C6_Witness ==
    /\ Done /\ exc = "none"
    /\ ExactCost(model, frame.in_tok, frame.billable_out_tok, frame.web_calls)
         % TicksPerMicro # 0
    /\ result.cost > 0

\* C7: a response with no output attribute, or whose output is not a list, is no
\* error: the result carries the response and the token cost alone.  (The claim's
\* text_response = "" is not part of this formula: the rest already fails.)
C7_NoOutputIsNoError ==
    Done /\ model \in PricedModels /\ GotObject /\ reply.value.output.tag # "list" =>
        /\ exc = "none"
        /\ result.raw_response = reply.value
        /\ IsRounded6(result.cost,
                      ExactCost(model, frame.in_tok, frame.billable_out_tok, 0))

RECURSIVE ConcatTexts(_, _)
\* the text of the first n parts, parts without text skipped
ConcatTexts(parts, n) ==
    IF n = 0 THEN <<>>
    ELSE ConcatTexts(parts, n - 1)
         \o (IF parts[n].hasText THEN parts[n].text ELSE <<>>)

\* t is s without its leading and trailing whitespace
IsStripped(t, s) ==
    /\ t # <<>> => t[1] \notin Whitespace /\ t[Len(t)] \notin Whitespace
    /\ \E lead \in 0..Len(s) :
        /\ lead + Len(t) <= Len(s)
        /\ t = SubSeq(s, lead + 1, lead + Len(t))
        /\ \A k \in 1..Len(s) : k <= lead \/ k > lead + Len(t) => s[k] \in Whitespace

\* C8: text_response is the stripped concatenation of the text parts of the first
\* assistant item of the output, later assistant items are ignored, and it is ""
\* with no error when there is no assistant item
C8_TextOfFirstAssistant ==
    Done /\ model \in PricedModels /\ GotObject /\ reply.value.output.tag = "list" =>
        LET items == reply.value.output.items
            A == {i \in DOMAIN items : items[i].role = "assistant"}
        IN  /\ exc = "none"
            /\ result.raw_response = reply.value
            /\ IF A = {} THEN result.text_response = <<>>
               ELSE LET first == CHOOSE i \in A : \A j \in A : i <= j
                        parts == IF items[first].content.tag = "list"
                                 THEN items[first].content.parts ELSE <<>>
                    IN  IsStripped(result.text_response,
                                   ConcatTexts(parts, Len(parts)))

C8_Witness ==
    /\ Done /\ exc = "none"
    /\ reply.value.output.items =
         <<WebSearchCall,
           Assistant(Content(<<TextPart(<<"a", " ">>), TextPart(<<"a", " ">>)>>))>>
    /\ result.text_response = <<"a", " ", "a">>

\* the counter a usage field stands for: 0 when it is missing or None
Counter(x) == IF x.tag = "int" THEN x.v ELSE 0

\* C9: a missing usage summary, a missing or None input_tokens / output_tokens,
\* and a missing or None output-token-details structure or reasoning_tokens field
\* each give the counter 0 (so billable output tokens = output_tokens when the
\* reasoning counter is defaulted), and the result is the success record
C9_UsageDefaults ==
    Done /\ model \in PricedModels /\ GotObject
         /\ reply.value.output.tag \in {"iter", "list"} =>
        LET u == reply.value.usage
            d == u.output_tokens_details
            reasoning == IF u.tag = "obj" /\ d.tag = "obj"
                         THEN Counter(d.reasoning_tokens) ELSE 0
        IN  /\ exc = "none"
            /\ result.raw_response = reply.value
            /\ frame.in_tok = (IF u.tag = "obj" THEN Counter(u.input_tokens) ELSE 0)
            /\ frame.out_tok = (IF u.tag = "obj" THEN Counter(u.output_tokens) ELSE 0)
            /\ frame.reasoning_tok = reasoning
            /\ reasoning = 0 => frame.billable_out_tok = frame.out_tok
            /\ IsRounded6(result.cost,
                          ExactCost(model, frame.in_tok, frame.billable_out_tok,
                                    ToolCallsOf(reply.value)))

C9_Witness ==
    /\ Done /\ exc = "none"
    /\ reply.value.usage.tag = "obj"
    /\ reply.value.usage.input_tokens = NoneVal
    /\ reply.value.usage.output_tokens = IntVal(500000)
    /\ reply.value.usage.output_tokens_details.tag = "absent"
    /\ frame.in_tok = 0
    /\ frame.billable_out_tok = 500000
    /\ result.cost > 0

\* C10: raw_response is absent exactly when the call took the failure path; then
\* the text is "" and the cost 0.0; a present raw_response is the object the
\* collaborator returned to the one call made; a collaborator returning None gives
\* the fallback
C10_RawResponseTellsFailure ==
    Done =>
        /\ result.raw_response = NoneResponse <=> exc # "none"
        /\ result.raw_response = NoneResponse =>
             result.text_response = <<>> /\ result.cost = 0
        /\ result.raw_response # NoneResponse =>
             /\ reply.kind = "return"
             /\ result.raw_response = reply.value
             /\ calls = 1
        /\ reply.kind = "return" /\ reply.value = NoneResponse =>
             exc # "none" /\ result = Fallback

C10_Witness ==
    /\ Done
    /\ reply.kind = "return"
    /\ reply.value = NoneResponse
    /\ exc = "AttributeError"
    /\ result = Fallback

====
